---- MODULE Spec2Model ----
(***************************************************************************)
(* A model of the NetraAI Flask backend (src/backend/app.py): the four     *)
(* request handlers /detect_plate, /chatbot, /speak and /health, with the  *)
(* pretrained collaborators (YOLOv5 detector, EasyOCR recognizer, gTTS     *)
(* synthesizer, base64/OpenCV decoding) as nondeterministic black boxes.   *)
(*                                                                         *)
(* Conventions.  Python strings are TLA+ strings (Len, SubSeq and \o work  *)
(* on them).  Confidences are integers in hundredths (0.5 is 50).  A call  *)
(* that may raise returns [raised, val].  An image is its height and width *)
(* in pixels; a region is the pixel rectangle of the image it is a view    *)
(* of.                                                                     *)
(***************************************************************************)
EXTENDS Integers, Sequences, FiniteSets, TLC

VARIABLES
    model_loaded,   \* module global `model`: TRUE iff torch.hub.load succeeded
    tmpfiles,       \* names of the files in the temporary directory
    pc,             \* "idle": no request in flight; "responded": handler returned
    req,            \* the request being handled: endpoint and JSON body
    env,            \* what the collaborators answered during this request
    locals,         \* the handler's local variables when it returned
    resp            \* the response the handler returned

vars == <<model_loaded, tmpfiles, pc, req, env, locals, resp>>

----------------------------------------------------------------------------
(* Bounds of the model *)

MaxResults == 3      \* recognizer results during one request, over all regions
MaxDetections == 2   \* rows of the detector's result frame (SpecRegion)
MaxH == 3            \* image height in pixels (SpecRegion)
MaxW == 2            \* image width in pixels (SpecRegion)
MaxFiles == 3        \* capacity of the temporary directory

----------------------------------------------------------------------------
(* Python values *)

Min(a, b) == IF a < b THEN a ELSE b
Max(a, b) == IF a > b THEN a ELSE b

Ok(v) == [raised |-> FALSE, val |-> v]
Raise == [raised |-> TRUE, val |-> <<>>]

\* JSON values of a request body field
JStr(s) == [t |-> "str", s |-> s, n |-> 0]
JNum(n) == [t |-> "num", s |-> "", n |-> n]
JNull == [t |-> "null", s |-> "", n |-> 0]

\* request.get_json(): None, a list, or a dict that has or lacks the field
NoBody == [kind |-> "none", has |-> FALSE, val |-> JNull]
ArrayBody == [kind |-> "array", has |-> FALSE, val |-> JNull]
EmptyObject == [kind |-> "object", has |-> FALSE, val |-> JNull]
ObjectWith(v) == [kind |-> "object", has |-> TRUE, val |-> v]

\* data.get(field, ''): raises on None and on a list (no attribute get)
DictGet(body) ==
    IF body.kind # "object" THEN Raise
    ELSE IF body.has THEN Ok(body.val) ELSE Ok(JStr(""))

----------------------------------------------------------------------------
(* str.lower, str.upper, str.strip, `in`, re.sub *)

UpperAlpha == "ABCDEFGHIJKLMNOPQRSTUVWXYZ"
LowerAlpha == "abcdefghijklmnopqrstuvwxyz"
Digits == "0123456789"
Whitespace == {" ", "\t", "\n"}

Char(s, i) == SubSeq(s, i, i)

Chars(s) == { Char(s, i) : i \in 1..Len(s) }

\* str.lower and str.upper on one character (ASCII)
LowerMap ==
    [c \in Chars(UpperAlpha) |->
        Char(LowerAlpha, CHOOSE i \in 1..Len(UpperAlpha) : Char(UpperAlpha, i) = c)]

UpperMap ==
    [c \in Chars(LowerAlpha) |->
        Char(UpperAlpha, CHOOSE i \in 1..Len(LowerAlpha) : Char(LowerAlpha, i) = c)]

LowerChar(c) == IF c \in DOMAIN LowerMap THEN LowerMap[c] ELSE c

UpperChar(c) == IF c \in DOMAIN UpperMap THEN UpperMap[c] ELSE c

RECURSIVE Lower(_)
Lower(s) ==
    IF Len(s) = 0 THEN "" ELSE LowerChar(Char(s, 1)) \o Lower(SubSeq(s, 2, Len(s)))

RECURSIVE Upper(_)
Upper(s) ==
    IF Len(s) = 0 THEN "" ELSE UpperChar(Char(s, 1)) \o Upper(SubSeq(s, 2, Len(s)))

RECURSIVE LStrip(_)
LStrip(s) ==
    IF Len(s) > 0 /\ Char(s, 1) \in Whitespace
    THEN LStrip(SubSeq(s, 2, Len(s))) ELSE s

RECURSIVE RStrip(_)
RStrip(s) ==
    IF Len(s) > 0 /\ Char(s, Len(s)) \in Whitespace
    THEN RStrip(SubSeq(s, 1, Len(s) - 1)) ELSE s

Strip(s) == RStrip(LStrip(s))

\* key in query
In(key, query) ==
    \E i \in 1..(Len(query) - Len(key) + 1) : SubSeq(query, i, i + Len(key) - 1) = key

\* the character class [A-Z0-9]
PlateChars == Chars(UpperAlpha) \cup Chars(Digits)

IsPlateChar(c) == c \in PlateChars

\* re.sub(r'[^A-Z0-9]', '', s)
RECURSIVE StripNonPlate(_)
StripNonPlate(s) ==
    IF Len(s) = 0 THEN ""
    ELSE (IF IsPlateChar(Char(s, 1)) THEN Char(s, 1) ELSE "")
             \o StripNonPlate(SubSeq(s, 2, Len(s)))

\* re.match(r'^[A-Z0-9]+$', s)
MatchesPlate(s) == Len(s) > 0 /\ \A i \in 1..Len(s) : IsPlateChar(Char(s, i))

----------------------------------------------------------------------------
(* /chatbot *)

responses == <<
    [key |-> "where is my cab", value |-> "Your cab should arrive in 2-3 minutes. Please wait at the pickup location."],
    [key |-> "what does this app do", value |-> "Netra AI helps visually impaired users book cabs, detect license plates, navigate, and get assistance through voice commands."],
    [key |-> "help me", value |-> "I can help you with: booking a cab, scanning license plates, navigation, or answering questions. Just ask!"],
    [key |-> "how to book cab", value |-> "Say \"Book a cab\" or tap the Book Ride button. I will generate a cab booking for you."],
    [key |-> "how to scan plate", value |-> "Say \"Scan license plate\" or tap the Scan Plate button to open the camera and detect license plates."],
    [key |-> "navigation help", value |-> "Use the Navigate button to get voice-guided directions to your destination."],
    [key |-> "app features", value |-> "Key features include voice commands, cab booking, license plate detection, navigation, and AI assistance."],
    [key |-> "emergency", value |-> "For emergencies, please contact local emergency services immediately. This app provides mobility assistance only."],
    [key |-> "voice commands", value |-> "Available commands: \"Book a cab\", \"Scan license plate\", \"Navigate me\", \"Help me\", \"Where is my cab\""] >>

DefaultResponse ==
    "I'm here to help with cab booking, license plate detection, and navigation. Try asking 'What does this app do?' or 'Help me' for more information."

Resp(status, body) == [status |-> status, body |-> body]

ErrorResp(status, message) == Resp(status, [error |-> message])

\* query = data.get('query', '').lower().strip()
NormalizeQueryNoLower(text) == Strip(text)
NormalizeQuery(text) == Strip(Lower(text))

\* for key, value in responses.items(): if key in query: response = value; break
\* returns the index of the entry taken, 0 when the loop ends with response None
RECURSIVE ScanLast(_, _)
ScanLast(query, i) ==
    IF i < 1 THEN 0
    ELSE IF In(responses[i].key, query) THEN i ELSE ScanLast(query, i - 1)

RECURSIVE ScanFrom(_, _)
ScanFrom(query, i) ==
    IF i > Len(responses) THEN 0
    ELSE IF In(responses[i].key, query) THEN i ELSE ScanFrom(query, i + 1)

FindResponseLast(query) == ScanLast(query, Len(responses))
FindResponse(query) == ScanFrom(query, 1)

chatbot(body) ==
    LET got == DictGet(body) IN
    IF got.raised THEN ErrorResp(500, "AttributeError")
    ELSE IF got.val.t # "str" THEN ErrorResp(500, "AttributeError")
    ELSE LET query == NormalizeQuery(got.val.s)
             hit == FindResponse(query)
             response == IF hit = 0 THEN DefaultResponse ELSE responses[hit].value
         IN  Resp(200, [success |-> TRUE, response |-> response, query |-> query])

----------------------------------------------------------------------------
(* Images and regions *)

Image(h, w) == [h |-> h, w |-> w]

\* Python's None where an image is expected (cv2.imdecode returns None, or
\* preprocess_image caught an exception)
NoImage == [h |-> 0, w |-> 0]

\* a numpy view image[top:bottom, left:right]
Region(top, bottom, left, right) ==
    [top |-> top, bottom |-> bottom, left |-> left, right |-> right]

\* the image itself, as passed on in `[image]`
FullRegion(image) == Region(0, image.h, 0, image.w)

\* a[lo:hi] along an axis of length n, for 0 <= lo, hi: the offsets kept
SliceStart(lo, n) == Min(lo, n)
SliceStop(lo, hi, n) == Max(SliceStart(lo, n), Min(hi, n))

\* a comma-free chunk of the 'image' string: whether base64.b64decode accepts
\* it, and the image cv2.imdecode makes of its bytes (None if they are none)
GoodChunk(image) == [b64 |-> TRUE, img |-> image]
NotAnImageChunk == [b64 |-> TRUE, img |-> NoImage]
BadBase64Chunk == [b64 |-> FALSE, img |-> NoImage]

\* the 'image' field: a string, given as its chunks between commas, or not a string
ImgStr(chunks) == [t |-> "str", chunks |-> chunks]
ImgNotStr == [t |-> "num", chunks |-> <<>>]

preprocess_image(image_data) ==
    IF image_data.t # "str" THEN NoImage            \* ',' in 5: TypeError, caught
    ELSE LET chunks == image_data.chunks
             data == IF Len(chunks) > 1 THEN chunks[2] ELSE chunks[1]
         IN  IF ~data.b64 THEN NoImage              \* binascii.Error, caught
             ELSE data.img

----------------------------------------------------------------------------
(* Region extractor *)

vehicle_classes == {2, 5, 7}

DetectionThreshold == 50
CandidateThreshold == 50
MinPlateLen == 4
MaxPlateLen == 12

\* detection['confidence'] > 0.5
QualifiesAtThreshold(detection) ==
    detection.class \in vehicle_classes /\ detection.confidence >= DetectionThreshold
Qualifies(detection) ==
    detection.class \in vehicle_classes /\ detection.confidence > DetectionThreshold

\* int(height * 0.6); the float product truncates to (6 * height) \div 10 for
\* every height below 100000
LowerStart(height) == (height * 6) \div 10

\* vehicle_region = image[y1:y2, x1:x2]; lower_region = vehicle_region[int(height * 0.6):, :]
LowerRegion(image, box) ==
    LET top == SliceStart(box.ymin, image.h)
        bottom == SliceStop(box.ymin, box.ymax, image.h)
        left == SliceStart(box.xmin, image.w)
        right == SliceStop(box.xmin, box.xmax, image.w)
        height == bottom - top
    IN  Region(top + SliceStart(LowerStart(height), height), bottom, left, right)

\* the loop over detections.iterrows(); int() of a non-finite coordinate raises
RECURSIVE CropLoop(_, _, _, _)
CropLoop(image, rows, i, license_plate_regions) ==
    IF i > Len(rows) THEN Ok(license_plate_regions)
    ELSE IF Qualifies(rows[i])
         THEN IF ~rows[i].finite THEN Raise
              ELSE CropLoop(image, rows, i + 1,
                            Append(license_plate_regions, LowerRegion(image, rows[i].box)))
         ELSE CropLoop(image, rows, i + 1, license_plate_regions)

\* det: what model(image) and results.pandas() give: [raised, rows]
RegionNoCatch(image, loaded, det) ==
    IF ~loaded THEN Ok(<<FullRegion(image)>>)
    ELSE IF det.raised THEN Raise
    ELSE LET r == CropLoop(image, det.rows, 1, <<>>) IN
         IF r.raised THEN Raise
         ELSE IF r.val = <<>> THEN Ok(<<FullRegion(image)>>) ELSE r
detect_license_plate_region(image, loaded, det) ==
    IF ~loaded THEN Ok(<<FullRegion(image)>>)
    ELSE IF det.raised THEN Ok(<<FullRegion(image)>>)
    ELSE LET r == CropLoop(image, det.rows, 1, <<>>) IN
         IF r.raised THEN Ok(<<FullRegion(image)>>)
         ELSE IF r.val = <<>> THEN Ok(<<FullRegion(image)>>) ELSE r

----------------------------------------------------------------------------
(* Plate candidate filter *)

\* confidence > 0.5
HighConfidenceGe(confidence) == confidence >= CandidateThreshold
HighConfidence(confidence) == confidence > CandidateThreshold

\* raw (text, confidence) pairs the recognizer may report
OcrSamples ==
    { [text |-> "mh12de", confidence |-> 50],
      [text |-> "ab 12", confidence |-> 60],
      [text |-> "ka-01 ab 123456", confidence |-> 90],
      [text |-> "MH12DE", confidence |-> 75],
      [text |-> "dl 3c", confidence |-> 90],
      [text |-> "a-b c", confidence |-> 90],
      [text |-> "KA01AB1234567", confidence |-> 90] }

RawTexts == { s.text : s \in OcrSamples }

\* cleaned_text = re.sub(r'[^A-Z0-9]', '', text.upper()), computed once for
\* each text of RawTexts
CleanOf == [text \in RawTexts |-> StripNonPlate(Upper(text))]

Clean(text) == IF text \in RawTexts THEN CleanOf[text] ELSE StripNonPlate(Upper(text))

\* len(cleaned_text) >= 4 and len(cleaned_text) <= 12 and re.match(...)
LooksLikePlateWide(cleaned_text) ==
    /\ Len(cleaned_text) >= MinPlateLen - 1
    /\ Len(cleaned_text) <= MaxPlateLen + 1
    /\ MatchesPlate(cleaned_text)
LooksLikePlate(cleaned_text) ==
    /\ Len(cleaned_text) >= MinPlateLen
    /\ Len(cleaned_text) <= MaxPlateLen
    /\ MatchesPlate(cleaned_text)

\* the loop over reader.readtext(image)
RECURSIVE FilterLoop(_, _, _)
FilterLoop(results, k, license_plates) ==
    IF k > Len(results) THEN license_plates
    ELSE IF HighConfidence(results[k].confidence)
         THEN LET cleaned_text == Clean(results[k].text) IN
              IF LooksLikePlate(cleaned_text)
              THEN FilterLoop(results, k + 1,
                       Append(license_plates,
                              [text |-> cleaned_text,
                               confidence |-> results[k].confidence,
                               bbox |-> results[k].bbox]))
              ELSE FilterLoop(results, k + 1, license_plates)
         ELSE FilterLoop(results, k + 1, license_plates)

\* ocr: what reader.readtext(region) gives: [raised, results]
ExtractNoCatch(ocr) ==
    IF ocr.raised THEN Raise ELSE Ok(FilterLoop(ocr.results, 1, <<>>))
extract_license_plate_text(ocr) ==
    IF ocr.raised THEN Ok(<<>>) ELSE Ok(FilterLoop(ocr.results, 1, <<>>))

----------------------------------------------------------------------------
(* /detect_plate *)

\* for region in license_plate_regions: all_detections.extend(extract(region))
\* ocrs[i] is the recognizer's answer on region i; calls counts readtext calls
RECURSIVE ExtractAll(_, _, _, _)
ExtractAll(license_plate_regions, ocrs, i, all_detections) ==
    IF i > Len(license_plate_regions)
    THEN [raised |-> FALSE, val |-> all_detections, calls |-> i - 1]
    ELSE LET detections == extract_license_plate_text(ocrs[i]) IN
         IF detections.raised
         THEN [raised |-> TRUE, val |-> all_detections, calls |-> i]
         ELSE ExtractAll(license_plate_regions, ocrs, i + 1,
                         all_detections \o detections.val)

\* max(all_detections, key=lambda x: x['confidence']): a later element
\* replaces the best so far only if its key is strictly greater
RECURSIVE MaxFoldLast(_, _, _)
MaxFoldLast(list, i, best) ==
    IF i > Len(list) THEN best
    ELSE IF list[i].confidence >= best.confidence
         THEN MaxFoldLast(list, i + 1, list[i])
         ELSE MaxFoldLast(list, i + 1, best)

RECURSIVE MaxFold(_, _, _)
MaxFold(list, i, best) ==
    IF i > Len(list) THEN best
    ELSE IF list[i].confidence > best.confidence
         THEN MaxFold(list, i + 1, list[i])
         ELSE MaxFold(list, i + 1, best)

LastMaxByConfidence(list) == MaxFoldLast(list, 2, list[1])
MaxByConfidence(list) == MaxFold(list, 2, list[1])

Texts(list) == [i \in 1..Len(list) |-> list[i].text]

Locals(image, regions, all_detections, detector_calls, reader_calls) ==
    [image |-> image, license_plate_regions |-> regions,
     all_detections |-> all_detections,
     detector_calls |-> detector_calls, reader_calls |-> reader_calls]

NoLocals == Locals(NoImage, <<>>, <<>>, 0, 0)

Out(response, l) == [resp |-> response, locals |-> l]

detect_plate(body, loaded, det, ocrs) ==
    IF body.kind = "none"
    THEN Out(ErrorResp(500, "TypeError"), NoLocals)   \* 'image' not in None
    ELSE IF ~body.has                                 \* also 'image' not in []
    THEN Out(ErrorResp(400, "No image provided"), NoLocals)
    ELSE LET image == preprocess_image(body.val) IN
    IF image = NoImage
    THEN Out(ErrorResp(400, "Invalid image format"), NoLocals)
    ELSE LET regions == detect_license_plate_region(image, loaded, det)
             detector_calls == IF loaded THEN 1 ELSE 0
         IN
    IF regions.raised
    THEN Out(ErrorResp(500, "Exception"), Locals(image, <<>>, <<>>, detector_calls, 0))
    ELSE LET ex == ExtractAll(regions.val, ocrs, 1, <<>>)
             l == Locals(image, regions.val, ex.val, detector_calls, ex.calls)
         IN
    IF ex.raised
    THEN Out(ErrorResp(500, "Exception"), l)
    ELSE IF ex.val # <<>>
    THEN LET best_detection == MaxByConfidence(ex.val) IN
         Out(Resp(200, [success |-> TRUE,
                        license_plate |-> best_detection.text,
                        confidence |-> best_detection.confidence,
                        all_detections |-> Texts(ex.val)]), l)
    ELSE Out(Resp(200, [success |-> FALSE,
                        message |-> "No license plate detected",
                        license_plate |-> "null"]), l)

----------------------------------------------------------------------------
(* /speak and /health *)

\* gTTS(text=text, lang='en', slow=False); tts.save(name): raises on text that
\* is not a string or has nothing to say, and when the service call fails
Synthesize(text, tts) ==
    IF text.t # "str" \/ Strip(text.s) = "" THEN Raise
    ELSE IF tts = "raise" THEN Raise
    ELSE Ok("audio")

\* `not text`
Falsy(text) ==
    \/ text.t = "null"
    \/ text.t = "str" /\ text.s = ""
    \/ text.t = "num" /\ text.n = 0

\* tempfile.NamedTemporaryFile(delete=False, suffix='.mp3'): a name not in use
FreshName(files) == CHOOSE name \in 1..(Cardinality(files) + 1) : name \notin files

SpeakOut(response, tmp_name, files) ==
    [resp |-> response, locals |-> [tmp_file |-> tmp_name], files |-> files]

speak(body, tts, files) ==
    LET got == DictGet(body) IN
    IF got.raised THEN SpeakOut(ErrorResp(500, "AttributeError"), 0, files)
    ELSE IF Falsy(got.val) THEN SpeakOut(ErrorResp(400, "No text provided"), 0, files)
    ELSE LET name == FreshName(files)
             created == files \cup {name}           \* the with block closes, never unlinks
             audio == Synthesize(got.val, tts)
         IN  IF audio.raised THEN SpeakOut(ErrorResp(500, "Exception"), name, created)
             ELSE SpeakOut(Resp(200, [file |-> name, mimetype |-> "audio/mpeg",
                                      download_name |-> "speech.mp3"]), name, created)

health(loaded) ==
    Resp(200, [status |-> "healthy", yolov5_loaded |-> loaded, easyocr_ready |-> TRUE])

----------------------------------------------------------------------------
(* Inputs: request bodies and collaborator answers *)

SampleImage == Image(5, 4)

PlateBodies ==
    { NoBody, ArrayBody, EmptyObject,
      ObjectWith(ImgNotStr),
      ObjectWith(ImgStr(<<BadBase64Chunk>>)),
      ObjectWith(ImgStr(<<NotAnImageChunk>>)),
      ObjectWith(ImgStr(<<GoodChunk(SampleImage)>>)),
      ObjectWith(ImgStr(<<BadBase64Chunk, GoodChunk(SampleImage)>>)),   \* data URL
      ObjectWith(ImgStr(<<GoodChunk(SampleImage), NotAnImageChunk>>)) }

Box(xmin, ymin, xmax, ymax) == [xmin |-> xmin, ymin |-> ymin, xmax |-> xmax, ymax |-> ymax]

\* a row of results.pandas().xyxy[0]; finite: whether its coordinates are finite
\* numbers (int() raises on nan and inf)
Detection(class, confidence, box, finite) ==
    [class |-> class, confidence |-> confidence, box |-> box, finite |-> finite]

FullBox(image) == Box(0, 0, image.w, image.h)

\* boxes are clipped to the image by the detector
Boxes(image) ==
    { FullBox(image), Box(1, 0, image.w, image.h), Box(0, 0, image.w, image.h - 1) }

Detections(image) ==
    { Detection(c, p, b, TRUE) : c \in {0, 2, 5, 7}, p \in {50, 60}, b \in Boxes(image) }
    \cup { Detection(c, p, FullBox(image), FALSE) : c \in {0, 2, 5, 7}, p \in {50, 60} }

SeqsUpTo(S, n) == UNION { [1..k -> S] : k \in 0..n }

DetRaised == [raised |-> TRUE, rows |-> <<>>]
DetRows(rows) == [raised |-> FALSE, rows |-> rows]
NoDet == DetRows(<<>>)

\* every answer of the detector with at most MaxDetections rows
DetectorOutcomes(image) ==
    {DetRaised} \cup { DetRows(rows) : rows \in SeqsUpTo(Detections(image), MaxDetections) }

\* the answers the server specification tries on SampleImage
DetectorSamples ==
    { DetRaised,
      DetRows(<<>>),
      DetRows(<<Detection(2, 50, FullBox(SampleImage), TRUE)>>),
      DetRows(<<Detection(2, 90, Box(1, 1, 3, 4), TRUE)>>),
      DetRows(<<Detection(0, 90, FullBox(SampleImage), TRUE),
                Detection(5, 60, Box(0, 2, 4, 5), TRUE)>>),
      DetRows(<<Detection(2, 90, FullBox(SampleImage), TRUE),
                Detection(0, 95, Box(0, 0, 2, 2), TRUE),
                Detection(7, 80, Box(1, 1, 3, 4), TRUE)>>),
      DetRows(<<Detection(7, 90, FullBox(SampleImage), FALSE)>>) }

OcrRaised == [raised |-> TRUE, results |-> <<>>]

\* the result list of one readtext call: bbox is the position in the list
OcrResults(pairs) ==
    [raised |-> FALSE,
     results |-> [k \in 1..Len(pairs) |->
                    [bbox |-> k, text |-> pairs[k].text, confidence |-> pairs[k].confidence]]]

\* the answers of one readtext call with at most m results
OcrOutcomes(m) ==
    {OcrRaised} \cup { OcrResults(pairs) : pairs \in SeqsUpTo(OcrSamples, m) }

\* the answers of the recognizer on n regions, with at most budget results in all
RECURSIVE OcrAnswers(_, _)
OcrAnswers(n, budget) ==
    IF n = 0 THEN { <<>> }
    ELSE UNION { { <<first>> \o rest : rest \in OcrAnswers(n - 1, budget - Len(first.results)) } :
                 first \in OcrOutcomes(budget) }

QueryCores ==
    { "", "banana", "How do I book a cab", "How to book cab", "HOW TO BOOK CAB",
      "where is my cab", "What does this app do", "Help me", "how to scan plate",
      "Navigation Help", "app features", "EMERGENCY", "voice commands",
      "help me, emergency", "emergency: help me", "app features and voice commands",
      "how to book cabs where is my cab" }

QueryPrefixes == { "", "  ", "Please: " }
QuerySuffixes == { "", " \n", "?" }

Queries == { p \o c \o s : p \in QueryPrefixes, c \in QueryCores, s \in QuerySuffixes }

ChatBodies ==
    { NoBody, ArrayBody, EmptyObject, ObjectWith(JNull), ObjectWith(JNum(7)) }
    \cup { ObjectWith(JStr(q)) : q \in Queries }

SpeakBodies ==
    { NoBody, ArrayBody, EmptyObject, ObjectWith(JNull), ObjectWith(JNum(0)),
      ObjectWith(JNum(7)), ObjectWith(JStr("")), ObjectWith(JStr("  ")),
      ObjectWith(JStr("hello")), ObjectWith(JStr("Your cab has arrived")) }

TtsOutcomes == { "ok", "raise" }

----------------------------------------------------------------------------
(* The server *)

Env(det, ocrs, tts) == [det |-> det, ocrs |-> ocrs, tts |-> tts]
NoEnv == Env(NoDet, <<>>, "none")

Request(endpoint, body) == [endpoint |-> endpoint, body |-> body]
NoRequest == Request("none", NoBody)
NoResp == Resp(0, [error |-> ""])

Init ==
    /\ model_loaded \in BOOLEAN
    /\ tmpfiles = {}
    /\ pc = "idle"
    /\ req = NoRequest
    /\ env = NoEnv
    /\ locals = NoLocals
    /\ resp = NoResp

\* the regions the recognizer will be asked about, to draw its answers
RegionsOf(body, loaded, det) ==
    IF body.kind = "object" /\ body.has /\ preprocess_image(body.val) # NoImage
    THEN detect_license_plate_region(preprocess_image(body.val), loaded, det)
    ELSE Raise

DetectPlate ==
    /\ pc = "idle"
    /\ \E body \in PlateBodies :
       \E det \in (IF model_loaded /\ ~RegionsOf(body, TRUE, NoDet).raised
                   THEN DetectorSamples ELSE {NoDet}) :
       LET r == RegionsOf(body, model_loaded, det)
           n == IF r.raised THEN 0 ELSE Len(r.val)
       IN  \E ocrs \in OcrAnswers(n, MaxResults) :
           \E out \in {detect_plate(body, model_loaded, det, ocrs)} :
           /\ req' = Request("detect_plate", body)
           /\ env' = Env(det, ocrs, "none")
           /\ locals' = out.locals
           /\ resp' = out.resp
    /\ pc' = "responded"
    /\ UNCHANGED <<model_loaded, tmpfiles>>

Chatbot ==
    /\ pc = "idle"
    /\ \E body \in ChatBodies :
        /\ req' = Request("chatbot", body)
        /\ resp' = chatbot(body)
    /\ env' = NoEnv
    /\ locals' = NoLocals
    /\ pc' = "responded"
    /\ UNCHANGED <<model_loaded, tmpfiles>>

Speak ==
    /\ pc = "idle"
    /\ Cardinality(tmpfiles) < MaxFiles
    /\ \E body \in SpeakBodies, tts \in TtsOutcomes :
        \E out \in {speak(body, tts, tmpfiles)} :
        /\ req' = Request("speak", body)
        /\ env' = Env(NoDet, <<>>, tts)
        /\ locals' = out.locals
        /\ resp' = out.resp
        /\ tmpfiles' = out.files
    /\ pc' = "responded"
    /\ UNCHANGED model_loaded

Health ==
    /\ pc = "idle"
    /\ req' = Request("health", NoBody)
    /\ resp' = health(model_loaded)
    /\ env' = NoEnv
    /\ locals' = NoLocals
    /\ pc' = "responded"
    /\ UNCHANGED <<model_loaded, tmpfiles>>

\* the response has been sent and the request is over
Complete ==
    /\ pc = "responded"
    /\ pc' = "idle"
    /\ req' = NoRequest
    /\ env' = NoEnv
    /\ locals' = NoLocals
    /\ resp' = NoResp
    /\ UNCHANGED <<model_loaded, tmpfiles>>

\* the JSON endpoints, which keep nothing between requests
Next == DetectPlate \/ Chatbot \/ Health \/ Complete

Spec == Init /\ [][Next]_vars

\* the speech endpoint and the temporary directory it writes to
NextSpeak == Speak \/ Complete

SpecSpeak == Init /\ [][NextSpeak]_vars

----------------------------------------------------------------------------
(* The region extractor alone, on every image up to MaxH x MaxW and every
   answer of the detector with at most MaxDetections rows *)

Images == { Image(h, w) : h \in 1..MaxH, w \in 1..MaxW }

InitRegion ==
    /\ model_loaded \in BOOLEAN
    /\ tmpfiles = {}
    /\ pc = "idle"
    /\ \E image \in Images :
        /\ req = Request("detect_license_plate_region", image)
        /\ \E det \in (IF model_loaded THEN DetectorOutcomes(image) ELSE {NoDet}) :
            env = Env(det, <<>>, "none")
    /\ locals = NoLocals
    /\ resp = NoResp

ExtractRegions ==
    /\ pc = "idle"
    /\ req.endpoint = "detect_license_plate_region"
    /\ \E out \in {detect_license_plate_region(req.body, model_loaded, env.det)} :
        /\ resp' = Resp(IF out.raised THEN 500 ELSE 200, [error |-> ""])
        /\ locals' = Locals(req.body, out.val, <<>>, IF model_loaded THEN 1 ELSE 0, 0)
    /\ pc' = "responded"
    /\ UNCHANGED <<model_loaded, tmpfiles, req, env>>

SpecRegion == InitRegion /\ [][ExtractRegions]_vars

----------------------------------------------------------------------------
(* Properties *)

Done(endpoint) == pc = "responded" /\ req.endpoint = endpoint

ChatQueryIs(q) == Done("chatbot") /\ req.body = ObjectWith(JStr(q))

BookCabResponse == responses[4].value

\* the request carries an image that decodes
Decodable(body) ==
    body.kind = "object" /\ body.has /\ preprocess_image(body.val) # NoImage

IsSuccess(r) == r.status = 200 /\ r.body.success

IsNoDetection(r) ==
    /\ r.status = 200
    /\ ~r.body.success
    /\ r.body.license_plate = "null"
    /\ r.body.message = "No license plate detected"

\* the (region, position) pairs of the raw results the recognizer returned
RawResults ==
    { <<i, k>> \in (DOMAIN env.ocrs) \X (1..MaxResults) :
        ~env.ocrs[i].raised /\ k \in DOMAIN env.ocrs[i].results }

RawAt(ik) == env.ocrs[ik[1]].results[ik[2]]

AlnumUpper == Chars("ABCDEFGHIJKLMNOPQRSTUVWXYZ0123456789")

\* the characters of a raw text that survive normalization, uppercased, in order
KeptPositions(raw) == { i \in 1..Len(raw) : UpperChar(Char(raw, i)) \in AlnumUpper }

KeptOf ==
    [raw \in RawTexts |->
        [k \in 1..Cardinality(KeptPositions(raw)) |->
            UpperChar(Char(raw, CHOOSE p \in KeptPositions(raw) :
                Cardinality({ q \in KeptPositions(raw) : q <= p }) = k))]]

IsNormalOf(raw, text) ==
    /\ Len(text) = Len(KeptOf[raw])
    /\ \A k \in 1..Len(text) : Char(text, k) = KeptOf[raw][k]

\* C1: once a /speak response has completed no temporary file is left: the
\* temporary directory is empty whenever no request is in flight.
C1_NoResidualTempFile == pc = "idle" => tmpfiles = {}

\* C2 as stated: "How do I book a cab" gets the canned response of the
\* "how to book cab" rule and "banana" gets the default response.
C2_BookCabMatches ==
    /\ ChatQueryIs("How do I book a cab") =>
           resp.status = 200 /\ resp.body.response = BookCabResponse
    /\ ChatQueryIs("banana") =>
           resp.status = 200 /\ resp.body.response = DefaultResponse

\* C2 amended: "How do I book a cab" contains no pattern of the table and gets
\* the default response, as does "banana"; the rule's canned response is what
\* "How to book cab" gets.
C2_BookCabNeedsPattern ==
    /\ ChatQueryIs("How do I book a cab") =>
           resp.status = 200 /\ resp.body.response = DefaultResponse
    /\ ChatQueryIs("banana") =>
           resp.status = 200 /\ resp.body.response = DefaultResponse
    /\ ChatQueryIs("How to book cab") =>
           resp.status = 200 /\ resp.body.response = BookCabResponse

C2_Witness ==
    /\ ChatQueryIs("How do I book a cab")
    /\ resp.body.response = DefaultResponse
    /\ resp.body.query = "how do i book a cab"

\* C3: a /detect_plate request with a decodable image and no candidate in any
\* region is answered {success: false, license_plate: null, message}, status
\* 200, whatever the detector and the recognizer returned or raised.
C3_NoCandidatesNoError ==
    (Done("detect_plate") /\ Decodable(req.body) /\ locals.all_detections = <<>>)
        => IsNoDetection(resp)

C3_Witness ==
    /\ Done("detect_plate")
    /\ Decodable(req.body)
    /\ locals.detector_calls = 1
    /\ env.det.raised
    /\ env.ocrs[1].raised
    /\ locals.all_detections = <<>>
    /\ IsNoDetection(resp)

\* C5: no recognizer result with confidence <= 0.5 becomes a candidate: every
\* candidate comes from a raw result of confidence > 0.5, there are no more
\* candidates than such results, and a returned confidence is > 0.5.
C5_LowConfidenceNeverCandidate ==
    Done("detect_plate") =>
        /\ \A j \in DOMAIN locals.all_detections :
            /\ locals.all_detections[j].confidence > 50
            /\ \E ik \in RawResults :
                /\ RawAt(ik).bbox = locals.all_detections[j].bbox
                /\ RawAt(ik).confidence = locals.all_detections[j].confidence
        /\ Len(locals.all_detections)
               <= Cardinality({ ik \in RawResults : RawAt(ik).confidence > 50 })
        /\ IsSuccess(resp) => resp.body.confidence > 50

C5_Witness ==
    /\ Done("detect_plate")
    /\ locals.reader_calls = 1
    /\ ~env.ocrs[1].raised
    /\ Len(env.ocrs[1].results) = 2
    /\ env.ocrs[1].results[1].confidence = 50
    /\ env.ocrs[1].results[1].text = "mh12de"
    /\ env.ocrs[1].results[2].confidence = 60
    /\ Len(locals.all_detections) = 1
    /\ IsSuccess(resp)
    /\ resp.body.confidence = 60

\* C6: every candidate's text is the uppercased raw text of a recognizer result
\* with the characters outside [A-Z0-9] removed, is made of A-Z and 0-9 only
\* and is 4 to 12 characters long; the texts returned are the candidates' texts.
C6_CandidatesNormalized ==
    Done("detect_plate") =>
        /\ \A j \in DOMAIN locals.all_detections :
            LET c == locals.all_detections[j] IN
            /\ Len(c.text) >= 4
            /\ Len(c.text) <= 12
            /\ Chars(c.text) \subseteq AlnumUpper
            /\ \E ik \in RawResults :
                /\ RawAt(ik).bbox = c.bbox
                /\ RawAt(ik).confidence = c.confidence
                /\ IsNormalOf(RawAt(ik).text, c.text)
        /\ IsSuccess(resp) =>
            /\ Len(resp.body.all_detections) = Len(locals.all_detections)
            /\ \A j \in DOMAIN locals.all_detections :
                resp.body.all_detections[j] = locals.all_detections[j].text
            /\ \E j \in DOMAIN locals.all_detections :
                resp.body.license_plate = locals.all_detections[j].text

C6_Witness ==
    /\ Done("detect_plate")
    /\ locals.reader_calls = 2
    /\ \E ik \in RawResults : RawAt(ik).text = "KA01AB1234567" /\ RawAt(ik).confidence = 90
    /\ \E ik \in RawResults : RawAt(ik).text = "a-b c" /\ RawAt(ik).confidence = 90
    /\ \E ik \in RawResults : RawAt(ik).text = "ab 12" /\ RawAt(ik).confidence = 60
    /\ IsSuccess(resp)
    /\ resp.body.all_detections = <<"AB12">>

\* C7: with a non-empty candidate list the returned license_plate and
\* confidence are those of the first candidate, in region-then-recognizer
\* order, whose confidence no other candidate exceeds.
C7_BestIsFirstMaximum ==
    (Done("detect_plate") /\ locals.all_detections # <<>>) =>
        /\ IsSuccess(resp)
        /\ \E i \in DOMAIN locals.all_detections :
            /\ \A j \in DOMAIN locals.all_detections :
                 locals.all_detections[j].confidence <= locals.all_detections[i].confidence
            /\ \A j \in 1..(i - 1) :
                 locals.all_detections[j].confidence < locals.all_detections[i].confidence
            /\ resp.body.license_plate = locals.all_detections[i].text
            /\ resp.body.confidence = locals.all_detections[i].confidence

C7_Witness ==
    /\ Done("detect_plate")
    /\ Len(locals.all_detections) = 3
    /\ locals.all_detections[1].confidence = 60
    /\ locals.all_detections[2].confidence = 90
    /\ locals.all_detections[3].confidence = 75
    /\ IsSuccess(resp)
    /\ resp.body.confidence = 90
    /\ resp.body.license_plate = locals.all_detections[2].text

\* C8: a /detect_plate request without a decodable image (no JSON object body,
\* no 'image' field, or an image that does not decode) is answered 400 with an
\* {error} body, and neither the detector nor the recognizer is called.
C8_InvalidImageIs400 ==
    (Done("detect_plate") /\ ~Decodable(req.body)) =>
        /\ resp.status = 400
        /\ locals.detector_calls = 0
        /\ locals.reader_calls = 0

\* the candidates the recognizer's answers should contribute, region by region
RECURSIVE ExpectedCandidates(_)
ExpectedCandidates(i) ==
    IF i = 0 THEN <<>>
    ELSE ExpectedCandidates(i - 1)
             \o (IF env.ocrs[i].raised THEN <<>>
                 ELSE FilterLoop(env.ocrs[i].results, 1, <<>>))

\* C9: no exception of the detector or the recognizer becomes a 500: if the
\* detector raises, the whole image is the single region; if the recognizer
\* raises on a region, that region contributes nothing and every other region
\* is still read and contributes its candidates.
C9_CollaboratorExceptionsAbsorbed ==
    (Done("detect_plate") /\ Decodable(req.body)) =>
        /\ resp.status = 200
        /\ (locals.detector_calls = 1 /\ env.det.raised) =>
               locals.license_plate_regions = <<FullRegion(locals.image)>>
        /\ locals.reader_calls = Len(locals.license_plate_regions)
        /\ locals.all_detections = ExpectedCandidates(Len(locals.license_plate_regions))

C9_Witness ==
    /\ Done("detect_plate")
    /\ Len(locals.license_plate_regions) = 2
    /\ env.ocrs[1].raised
    /\ ~env.ocrs[2].raised
    /\ locals.reader_calls = 2
    /\ locals.all_detections # <<>>
    /\ IsSuccess(resp)

\* what Python's strip() leaves of a lowercased text: cut is the number of
\* leading characters removed
IsStrippedLowerOf(raw, q) ==
    \E cut \in 0..(Len(raw) - Len(q)) :
        /\ \A k \in 1..cut : Char(raw, k) \in {" ", "\t", "\n"}
        /\ \A k \in (cut + Len(q) + 1)..Len(raw) : Char(raw, k) \in {" ", "\t", "\n"}
        /\ \A k \in 1..Len(q) : Char(q, k) = LowerChar(Char(raw, cut + k))
        /\ Len(q) > 0 =>
            /\ Char(q, 1) \notin {" ", "\t", "\n"}
            /\ Char(q, Len(q)) \notin {" ", "\t", "\n"}

\* C10: for a string query /chatbot answers success with the lowercased,
\* trimmed query and the response of the first table entry whose pattern is a
\* substring of it, or the default response if there is none.
C10_FirstMatchInTableOrder ==
    (Done("chatbot") /\ req.body.kind = "object" /\ req.body.has
         /\ req.body.val.t = "str") =>
        /\ resp.status = 200
        /\ resp.body.success
        /\ IsStrippedLowerOf(req.body.val.s, resp.body.query)
        /\ \/ \E i \in DOMAIN responses :
                /\ In(responses[i].key, resp.body.query)
                /\ \A j \in 1..(i - 1) : ~In(responses[j].key, resp.body.query)
                /\ resp.body.response = responses[i].value
           \/ /\ \A i \in DOMAIN responses : ~In(responses[i].key, resp.body.query)
              /\ resp.body.response = DefaultResponse

C10_Witness ==
    /\ ChatQueryIs("  emergency: help me \n")
    /\ resp.body.query = "emergency: help me"
    /\ resp.body.response = responses[3].value

\* the rows of the detector's answer that qualify as vehicles
QualifyingRows ==
    { i \in DOMAIN env.det.rows :
        env.det.rows[i].class \in {2, 5, 7} /\ env.det.rows[i].confidence > 50 }

RankOf(i) == Cardinality({ j \in QualifyingRows : j <= i })

DetectorAnswered == model_loaded /\ ~env.det.raised

\* the bottom 40% of a box that lies within the image
IsLowerBandOf(region, box) ==
    /\ region.left = box.xmin
    /\ region.right = box.xmax
    /\ region.bottom = box.ymax
    /\ 10 * (region.top - box.ymin) <= 6 * (box.ymax - box.ymin)
    /\ 10 * (region.top - box.ymin + 1) > 6 * (box.ymax - box.ymin)

\* C4 as stated: never an empty list; the full image alone when no detection
\* qualifies; otherwise one region per qualifying detection, in order, none of
\* them the full image.
C4_OneRegionPerVehicle ==
    pc = "responded" =>
        LET regions == locals.license_plate_regions IN
        /\ regions # <<>>
        /\ (~DetectorAnswered \/ QualifyingRows = {}) =>
               regions = <<FullRegion(req.body)>>
        /\ (DetectorAnswered /\ QualifyingRows # {}) =>
               /\ Len(regions) = Cardinality(QualifyingRows)
               /\ \A i \in QualifyingRows :
                    IsLowerBandOf(regions[RankOf(i)], env.det.rows[i].box)
               /\ \A k \in DOMAIN regions : regions[k] # FullRegion(req.body)

\* a qualifying row whose coordinates int() cannot convert
ConversionFails == \E i \in QualifyingRows : ~env.det.rows[i].finite

\* C4 amended: never an empty list; the full image alone when no detection
\* qualifies or a qualifying row's coordinates cannot be converted; otherwise
\* one region per qualifying detection, in order, the bottom 40% of its box,
\* which is the full image only for a box covering an image one pixel high.
C4_RegionsNeverEmpty ==
    pc = "responded" =>
        LET regions == locals.license_plate_regions IN
        /\ resp.status = 200
        /\ regions # <<>>
        /\ (~DetectorAnswered \/ QualifyingRows = {} \/ ConversionFails) =>
               regions = <<FullRegion(req.body)>>
        /\ (DetectorAnswered /\ QualifyingRows # {} /\ ~ConversionFails) =>
               /\ Len(regions) = Cardinality(QualifyingRows)
               /\ \A i \in QualifyingRows :
                    /\ IsLowerBandOf(regions[RankOf(i)], env.det.rows[i].box)
                    /\ regions[RankOf(i)] = FullRegion(req.body) =>
                           /\ req.body.h = 1
                           /\ env.det.rows[i].box = FullBox(req.body)

C4_Witness ==
    /\ pc = "responded"
    /\ DetectorAnswered
    /\ Len(env.det.rows) = 2
    /\ env.det.rows[1].class = 0
    /\ env.det.rows[2].class = 5
    /\ env.det.rows[2].confidence = 60
    /\ env.det.rows[2].finite
    /\ req.body = Image(3, 2)
    /\ env.det.rows[2].box = FullBox(req.body)
    /\ locals.license_plate_regions = <<Region(1, 3, 0, 2)>>

====
